---------------------------- MODULE Spec2Model ----------------------------
(***************************************************************************)
(* A model of the oaks-mart backend (src/backend/app.py, models.py): the   *)
(* relational store (Product, Transaction, TransactionLine tables), the    *)
(* SQLAlchemy session a request works in, and the /api/sync handler        *)
(* sync_transactions.                                                      *)
(*                                                                         *)
(* Spec      one request at a time, each handler run to completion.        *)
(* SpecConc  two requests in flight, interleaved at the store operations   *)
(*           (flush, query, commit, rollback).                             *)
(***************************************************************************)
EXTENDS Integers, Sequences, FiniteSets, TLC

(***************************************************************************)
(* Bounds of the model.                                                    *)
(***************************************************************************)
MaxLines == 2        \* lines per submitted transaction
MaxSubmitted == 2    \* transactions submitted in fresh batches, over a run
MaxResend == 1       \* times a client re-sends its last batch
MaxStock == 3        \* largest initial stock of product "111"
MaxConcBatch == 2    \* transactions per batch of a request in flight
\* POST /api/products requests in one behaviour of SpecCatalog
MaxUpserts == 1

(***************************************************************************)
(* JSON values as the handler receives them.  A numeric field is a number, *)
(* a string holding a number, a string holding no number, null, or absent. *)
(***************************************************************************)
Num(n) == [k |-> "num", v |-> n]
Str(n) == [k |-> "str", v |-> n]
Bad == [k |-> "bad", v |-> 0]
Null == [k |-> "null", v |-> 0]
Absent == [k |-> "absent", v |-> 0]
Iso(t) == [k |-> "iso", v |-> t]

NoError == "none"

\* dict.get(key, default) on a JSON object: the default only when the key is absent
\* a lookup without a default (tx['total']): a missing key stays missing and
\* the conversion of it raises
GetNoDefault(raw, default) == raw

Get(raw, default) == IF raw.k = "absent" THEN default ELSE raw

\* int(x): a number or a numeric string converts, another string raises
\* ValueError, None raises TypeError
ToInt(raw) ==
    CASE raw.k = "num" -> [ok |-> TRUE, v |-> raw.v, err |-> NoError]
      [] raw.k = "str" -> [ok |-> TRUE, v |-> raw.v, err |-> NoError]
      [] raw.k = "null" -> [ok |-> FALSE, v |-> 0, err |-> "TypeError"]
      [] OTHER -> [ok |-> FALSE, v |-> 0, err |-> "ValueError"]

\* float(x): as int(x) on the values of the model (amounts are whole numbers)
ToFloat(raw) ==
    CASE raw.k = "num" -> [ok |-> TRUE, v |-> raw.v, err |-> NoError]
      [] raw.k = "str" -> [ok |-> TRUE, v |-> raw.v, err |-> NoError]
      [] raw.k = "null" -> [ok |-> FALSE, v |-> 0, err |-> "TypeError"]
      [] OTHER -> [ok |-> FALSE, v |-> 0, err |-> "ValueError"]

\* Python truthiness of a JSON value: absent (None), null, false, "" and 0
\* are falsy
Truthy(raw) ==
    /\ raw.k \notin {"absent", "null"}
    /\ ~(raw.k = "num" /\ raw.v = 0)
    /\ ~(raw.k = "bool" /\ ~raw.v)

\* datetime.fromisoformat(s): an ISO-8601 string parses, anything else raises
FromIsoFormat(raw) ==
    IF raw.k = "iso" THEN [ok |-> TRUE, v |-> raw.v] ELSE [ok |-> FALSE, v |-> 0]

Max(a, b) == IF a >= b THEN a ELSE b

(***************************************************************************)
(* The store.                                                              *)
(***************************************************************************)
VARIABLES
    backend,            \* "sqlite" (the default oaks.db) or "postgres" (OAKS_DB)
    catalog,            \* table product: barcode -> row, committed
    transactions,       \* table transaction: committed rows, in commit order
    tlines,             \* table transaction_line: committed rows, in commit order
    txSeq,              \* postgres: last value of transaction_id_seq
    lineSeq,            \* postgres: last value of transaction_line_id_seq
    now,                \* the server's clock (datetime.utcnow())
    \* one /api/sync request run to completion (Spec)
    req,                \* payload['transactions'] of the last request
    ack,                \* its response: ack
    updated_products,   \* its response: updated_products
    pre,                \* the committed store when the last request arrived
    prevAck,            \* the ack of the request before the last one
    resent,             \* the last request was a re-send of the one before
    nsub,               \* transactions submitted so far in fresh batches
    nresent,            \* re-sends so far
    \* requests in flight (SpecConc)
    wk,                 \* per request thread: position, payload, session, response
    lock,               \* sqlite: the thread holding the database write lock, or 0
    \* the other endpoints (SpecCatalog, SpecAuth)
    users,              \* table user: committed rows, in commit order
    apiReq,             \* the last request, when it went to another endpoint
    apiResp,            \* its response
    preUsers,           \* table user when that request arrived
    nupsert             \* POST /api/products requests so far

vars == <<backend, catalog, transactions, tlines, txSeq, lineSeq, now,
          req, ack, updated_products, pre, prevAck, resent, nsub, nresent,
          wk, lock, users, apiReq, apiResp, preUsers, nupsert>>

storeVars == <<catalog, transactions, tlines, txSeq, lineSeq>>
seqVars == <<req, ack, updated_products, pre, prevAck, resent, nsub, nresent>>
concVars == <<wk, lock>>
apiVars == <<users, apiReq, apiResp, preUsers, nupsert>>

Barcodes == {"111", "222", "999"}

\* models.Product (one row); to_dict() returns every column
Product(id, barcode, name, price, cost, qty) ==
    [id |-> id, barcode |-> barcode, name |-> name, price |-> price,
     cost |-> cost, qty |-> qty, is_new |-> TRUE, created_at |-> 0]

\* Product.to_dict(): a snapshot of the columns of the row as it is in the
\* session, created_at as its isoformat() string
to_dict(prod) ==
    [id |-> prod.id, barcode |-> prod.barcode, name |-> prod.name,
     price |-> prod.price, cost |-> prod.cost, qty |-> prod.qty,
     is_new |-> prod.is_new, created_at |-> [k |-> "iso", v |-> prod.created_at]]

\* models.Transaction (one row)
Transaction(id, total, payment_type, created_at) ==
    [id |-> id, created_at |-> created_at, total |-> total,
     payment_type |-> payment_type, synced |-> TRUE]

\* the row with price and cost stored in each other's column
TransactionLineSwapped(id, transaction_id, barcode, name, qty, price, cost) ==
    [id |-> id, transaction_id |-> transaction_id, barcode |-> barcode,
     name |-> name, qty |-> qty, price |-> cost, cost |-> price]

\* models.TransactionLine (one row)
TransactionLine(id, transaction_id, barcode, name, qty, price, cost) ==
    [id |-> id, transaction_id |-> transaction_id, barcode |-> barcode,
     name |-> name, qty |-> qty, price |-> price, cost |-> cost]

\* the committed store as one value
Store(c, t, l, ts, ls) ==
    [catalog |-> c, transactions |-> t, lines |-> l, txSeq |-> ts, lineSeq |-> ls]

DB == Store(catalog, transactions, tlines, txSeq, lineSeq)

RECURSIVE MaxId(_)
MaxId(rows) ==
    IF rows = <<>> THEN 0 ELSE Max(rows[1].id, MaxId(Tail(rows)))


(***************************************************************************)
(* The SQLAlchemy session of one request, between two commits/rollbacks:   *)
(* the flushed Transaction row, the flushed TransactionLine rows, and the  *)
(* identity map of the Product rows it has loaded (a loaded row is not     *)
(* read again until the session expires it at commit or rollback).         *)
(* up is the handler's local dict updated_products, in insertion order.    *)
(***************************************************************************)
NoTx == Transaction(0, 0, "", 0)
NoSeen == [b \in {} |-> 0]

\* a session with nothing in it
NoSession ==
    [t |-> NoTx, lines |-> <<>>, seen |-> NoSeen, up |-> <<>>, err |-> NoError,
     txSeq |-> 0, lineSeq |-> 0]

\* id of a row inserted into table transaction: sqlite gives max(rowid)+1 of
\* the rows the connection sees, postgres the next value of the sequence
\* an allocation that hands out the highest id of the table again
NextTxIdReused(db) == Max(1, MaxId(db.transactions))

NextTxId(db) ==
    IF backend = "sqlite" THEN MaxId(db.transactions) + 1 ELSE db.txSeq + 1

\* id of a row inserted into table transaction_line
NextLineId(db, s) ==
    IF backend = "sqlite" THEN MaxId(db.lines \o s.lines) + 1 ELSE s.lineSeq + 1

\* updated_products[key] = snap on a Python dict: one entry per key, a new
\* key goes last, an existing key keeps its place
DictSet(d, snap) ==
    IF \E i \in 1..Len(d) : d[i].barcode = snap.barcode
    THEN [i \in 1..Len(d) |-> IF d[i].barcode = snap.barcode THEN snap ELSE d[i]]
    ELSE Append(d, snap)

\* a query that reads the committed row again and loses what the session
\* has already taken from it
QueryProductStale(db, s, b) == db.catalog[b]

\* Product.query.filter_by(barcode=b).first() as the session sees it
HasProduct(db, s, b) == b \in DOMAIN s.seen \/ b \in DOMAIN db.catalog
QueryProduct(db, s, b) ==
    IF b \in DOMAIN s.seen THEN s.seen[b].row ELSE db.catalog[b]

\* the decrement without its floor
DecrementNoFloor(qty, n) == qty - n

\* prod.qty = max(0, (prod.qty or 0) - l.qty)
Decrement(qty, n) == Max(0, qty - n)

\* app.py 225-235: total, payment_type, created_at, Transaction(...), add, flush
\* a begin without the inner try around the parse of createdAt: a malformed
\* createdAt raises and fails the transaction
BeginTxStrictTime(db, up, tx, clock) ==
    LET total == ToFloat(Get(tx.total, Num(0)))
        payment_type == IF tx.payment_type = "absent" THEN "cash" ELSE tx.payment_type
        parsed == FromIsoFormat(tx.createdAt)
        created_at == IF Truthy(tx.createdAt) THEN parsed.v ELSE clock
        id == NextTxId(db)
    IN  IF ~total.ok \/ (Truthy(tx.createdAt) /\ ~parsed.ok)
        THEN [t |-> NoTx, lines |-> <<>>, seen |-> NoSeen, up |-> up,
              err |-> IF total.ok THEN "ValueError" ELSE total.err,
              txSeq |-> db.txSeq, lineSeq |-> db.lineSeq]
        ELSE [t |-> Transaction(id, total.v, payment_type, created_at),
              lines |-> <<>>, seen |-> NoSeen, up |-> up, err |-> NoError,
              txSeq |-> IF backend = "sqlite" THEN db.txSeq ELSE id,
              lineSeq |-> db.lineSeq]

BeginTx(db, up, tx, clock) ==
    LET total == ToFloat(Get(tx.total, Num(0)))
        payment_type == IF tx.payment_type = "absent" THEN "cash" ELSE tx.payment_type
        parsed == FromIsoFormat(tx.createdAt)
        created_at == IF Truthy(tx.createdAt) /\ parsed.ok THEN parsed.v ELSE clock
        id == NextTxId(db)
    IN  IF ~total.ok
        THEN [t |-> NoTx, lines |-> <<>>, seen |-> NoSeen, up |-> up,
              err |-> total.err, txSeq |-> db.txSeq, lineSeq |-> db.lineSeq]
        ELSE [t |-> Transaction(id, total.v, payment_type, created_at),
              lines |-> <<>>, seen |-> NoSeen, up |-> up, err |-> NoError,
              txSeq |-> IF backend = "sqlite" THEN db.txSeq ELSE id,
              lineSeq |-> db.lineSeq]

\* a loop iteration that treats a barcode with no product as an error
StoreLineStrict(db, s, line) ==
    LET qty == ToInt(Get(line.qty, Num(0)))
        price == ToFloat(Get(line.price, Num(0)))
        cost == ToFloat(Get(line.cost, Num(0)))
        id == NextLineId(db, s)
        l == TransactionLine(id, s.t.id, line.barcode, line.name, qty.v, price.v, cost.v)
        s1 == [s EXCEPT !.lines = Append(@, l),
                        !.lineSeq = IF backend = "sqlite" THEN @ ELSE id]
        b == line.barcode
    IN  IF ~qty.ok THEN [s EXCEPT !.err = qty.err]
        ELSE IF ~price.ok THEN [s EXCEPT !.err = price.err]
        ELSE IF ~cost.ok THEN [s EXCEPT !.err = cost.err]
        ELSE IF ~HasProduct(db, s, b) THEN [s EXCEPT !.err = "NotFound"]
        ELSE LET prod == QueryProduct(db, s, b)
                 loaded == IF b \in DOMAIN s.seen THEN s.seen[b].loaded ELSE prod
                 prod2 == [prod EXCEPT !.qty = Decrement(prod.qty, l.qty)]
             IN  [s1 EXCEPT
                      !.seen = [x \in DOMAIN s.seen \cup {b} |->
                                   IF x = b THEN [loaded |-> loaded, row |-> prod2]
                                   ELSE s.seen[x]],
                      !.up = DictSet(s.up, to_dict(prod2))]

\* app.py 239-251: one iteration of the loop over tx['lines']
StoreLine(db, s, line) ==
    LET qty == ToInt(Get(line.qty, Num(0)))
        price == ToFloat(Get(line.price, Num(0)))
        cost == ToFloat(Get(line.cost, Num(0)))
        id == NextLineId(db, s)
        l == TransactionLine(id, s.t.id, line.barcode, line.name, qty.v, price.v, cost.v)
        s1 == [s EXCEPT !.lines = Append(@, l),
                        !.lineSeq = IF backend = "sqlite" THEN @ ELSE id]
        b == line.barcode
    IN  IF ~qty.ok THEN [s EXCEPT !.err = qty.err]
        ELSE IF ~price.ok THEN [s EXCEPT !.err = price.err]
        ELSE IF ~cost.ok THEN [s EXCEPT !.err = cost.err]
        ELSE IF ~HasProduct(db, s, b) THEN s1
        ELSE LET prod == QueryProduct(db, s, b)
                 loaded == IF b \in DOMAIN s.seen THEN s.seen[b].loaded ELSE prod
                 prod2 == [prod EXCEPT !.qty = Decrement(prod.qty, l.qty)]
             IN  [s1 EXCEPT
                      !.seen = [x \in DOMAIN s.seen \cup {b} |->
                                   IF x = b THEN [loaded |-> loaded, row |-> prod2]
                                   ELSE s.seen[x]],
                      !.up = DictSet(s.up, to_dict(prod2))]

RECURSIVE StoreLines(_, _, _, _)
StoreLines(db, s, ls, i) ==
    IF i > Len(ls) \/ s.err # NoError THEN s
    ELSE StoreLines(db, StoreLine(db, s, ls[i]), ls, i + 1)

\* a commit that also marks the products it sold as no longer new
CommitClearsIsNew(db, s) ==
    [catalog |-> [b \in DOMAIN db.catalog |->
                     IF b \in DOMAIN s.seen
                     THEN [db.catalog[b] EXCEPT !.qty = s.seen[b].row.qty,
                                                !.is_new = FALSE]
                     ELSE db.catalog[b]],
     transactions |-> Append(db.transactions, s.t),
     lines |-> db.lines \o s.lines,
     txSeq |-> s.txSeq,
     lineSeq |-> s.lineSeq]

\* a commit with an atomic floored decrement at the store
\* (UPDATE ... SET qty = max(0, qty - n)): no decrement is lost
CommitAtomic(db, s) ==
    [catalog |-> [b \in DOMAIN db.catalog |->
                     IF b \in DOMAIN s.seen
                     THEN [db.catalog[b] EXCEPT
                              !.qty = Max(0, @ - (s.seen[b].loaded.qty - s.seen[b].row.qty))]
                     ELSE db.catalog[b]],
     transactions |-> Append(db.transactions, s.t),
     lines |-> db.lines \o s.lines,
     txSeq |-> s.txSeq,
     lineSeq |-> s.lineSeq]

\* a commit that writes the change of the session (UPDATE ... SET qty = qty - n)
\* instead of the value the session computed
CommitDelta(db, s) ==
    [catalog |-> [b \in DOMAIN db.catalog |->
                     IF b \in DOMAIN s.seen
                     THEN [db.catalog[b] EXCEPT
                              !.qty = @ - (s.seen[b].loaded.qty - s.seen[b].row.qty)]
                     ELSE db.catalog[b]],
     transactions |-> Append(db.transactions, s.t),
     lines |-> db.lines \o s.lines,
     txSeq |-> s.txSeq,
     lineSeq |-> s.lineSeq]

\* db.session.commit(): the flushed rows and the changed columns of the
\* loaded products become the committed store
Commit(db, s) ==
    [catalog |-> [b \in DOMAIN db.catalog |->
                     IF b \in DOMAIN s.seen /\ s.seen[b].row.qty # s.seen[b].loaded.qty
                     THEN [db.catalog[b] EXCEPT !.qty = s.seen[b].row.qty]
                     ELSE db.catalog[b]],
     transactions |-> Append(db.transactions, s.t),
     lines |-> db.lines \o s.lines,
     txSeq |-> s.txSeq,
     lineSeq |-> s.lineSeq]

\* a handler that swallows the exception without rolling back: the stock the
\* session changed stays pending and reaches the store with the next commit
RollbackKeepsStock(db, s) ==
    [db EXCEPT !.txSeq = s.txSeq, !.lineSeq = s.lineSeq,
               !.catalog = [b \in DOMAIN db.catalog |->
                               IF b \in DOMAIN s.seen THEN s.seen[b].row
                               ELSE db.catalog[b]]]

\* a rollback that undoes the transaction row and the stock but leaves the
\* lines the session had flushed in the store
RollbackKeepsLines(db, s) ==
    [db EXCEPT !.txSeq = s.txSeq, !.lineSeq = s.lineSeq, !.lines = @ \o s.lines]

\* db.session.rollback(): nothing of the session reaches the store; a
\* postgres sequence keeps the values it handed out
Rollback(db, s) ==
    [db EXCEPT !.txSeq = s.txSeq, !.lineSeq = s.lineSeq]

AckOk(tx, s) == [local_id |-> tx.local_id, status |-> "ok", server_id |-> s.t.id]
AckError(tx, s) == [local_id |-> tx.local_id, status |-> "error", error |-> s.err]

\* a loop body that de-duplicates: a transaction the ledger already holds
\* (same total, payment type and creation time) is acknowledged with the id
\* it has and changes nothing
ProcessTxDedup(h, tx, clock) ==
    LET s0 == BeginTx(h.db, h.up, tx, clock)
        s == StoreLines(h.db, s0, tx.lines, 1)
        Same(t) == /\ t.total = s0.t.total
                   /\ t.payment_type = s0.t.payment_type
                   /\ t.created_at = s0.t.created_at
        dup == SelectSeq(h.db.transactions, Same)
    IN  IF s.err # NoError
        THEN [db |-> Rollback(h.db, s), up |-> s.up, ack |-> Append(h.ack, AckError(tx, s))]
        ELSE IF dup # <<>>
        THEN [db |-> Rollback(h.db, s), up |-> h.up,
              ack |-> Append(h.ack, [local_id |-> tx.local_id, status |-> "ok",
                                     server_id |-> dup[1].id])]
        ELSE [db |-> Commit(h.db, s), up |-> s.up, ack |-> Append(h.ack, AckOk(tx, s))]

\* a loop body that acknowledges only what it committed
ProcessTxDropsError(h, tx, clock) ==
    LET s0 == BeginTx(h.db, h.up, tx, clock)
        s == StoreLines(h.db, s0, tx.lines, 1)
    IN  IF s.err = NoError
        THEN [db |-> Commit(h.db, s), up |-> s.up, ack |-> Append(h.ack, AckOk(tx, s))]
        ELSE [db |-> Rollback(h.db, s), up |-> s.up, ack |-> h.ack]

\* app.py 223-257: the body of the loop over the batch, for one transaction
ProcessTx(h, tx, clock) ==
    LET s0 == BeginTx(h.db, h.up, tx, clock)
        s == StoreLines(h.db, s0, tx.lines, 1)
    IN  IF s.err = NoError
        THEN [db |-> Commit(h.db, s), up |-> s.up, ack |-> Append(h.ack, AckOk(tx, s))]
        ELSE [db |-> Rollback(h.db, s), up |-> s.up, ack |-> Append(h.ack, AckError(tx, s))]

\* a loop with the try around it instead of inside it: the first failing
\* transaction ends the batch
RECURSIVE SyncLoopAbort(_, _, _, _)
SyncLoopAbort(h, txs, i, clock) ==
    IF i > Len(txs) THEN h
    ELSE LET h2 == ProcessTx(h, txs[i], clock)
         IN  IF h2.ack[Len(h2.ack)].status = "error" THEN h2
             ELSE SyncLoopAbort(h2, txs, i + 1, clock)

RECURSIVE SyncLoop(_, _, _, _)
SyncLoop(h, txs, i, clock) ==
    IF i > Len(txs) THEN h
    ELSE SyncLoop(ProcessTx(h, txs[i], clock), txs, i + 1, clock)

\* app.py 212-259: the handler; the response is ack and list(updated_products.values())
sync_transactions(db, txs, clock) ==
    SyncLoop([db |-> db, up |-> <<>>, ack |-> <<>>], txs, 1, clock)

(***************************************************************************)
(* The requests of the model.                                              *)
(***************************************************************************)
Line(b, q) ==
    [barcode |-> b, name |-> "item", qty |-> q, price |-> Num(5), cost |-> Num(3)]

CoreLines ==
    {Line("111", Num(1)), Line("111", Num(3)), Line("222", Num(1)),
     Line("999", Num(1)), Line("111", Num(-1)), Line("111", Bad),
     [Line("111", Num(1)) EXCEPT !.price = Bad]}

SeqsUpTo(S, n) == UNION {[1..m -> S] : m \in 0..n}

LineSeqs == SeqsUpTo(CoreLines, MaxLines)

Tx(local_id, total, createdAt, payment_type, lines) ==
    [local_id |-> local_id, total |-> total, createdAt |-> createdAt,
     payment_type |-> payment_type, lines |-> lines]

SpecialTxs ==
    {Tx("c", Bad, Iso(1), "cash", <<Line("111", Num(1))>>),
     Tx("c", Null, Iso(1), "cash", <<Line("222", Num(1))>>),
     Tx("c", Absent, Bad, "mpesa", <<Line("111", Num(1))>>),
     Tx("a", Str(7), Null, "cash", <<Line("111", Str(2)), Line("222", Absent)>>),
     Tx("b", Num(7), Iso(1), "cash",
        <<Line("222", Num(1)), [Line("222", Num(1)) EXCEPT !.cost = Null]>>)}

TxInputs ==
    {Tx("a", Num(10), Iso(1), "cash", ls) : ls \in LineSeqs}
    \cup {Tx("b", Num(20), Absent, "absent", ls) : ls \in SeqsUpTo(CoreLines, 1)}
    \cup SpecialTxs

Batches(n) == SeqsUpTo(TxInputs, n)

Workers == {1, 2}

\* a request thread: pc is "idle", "tx" (at the head of the loop over the
\* batch), "line" (inside the try, after the flush) or "done" (responded)
Idle ==
    [pc |-> "idle", req |-> <<>>, i |-> 1, j |-> 1, s |-> NoSession,
     up |-> <<>>, ack |-> <<>>]

(***************************************************************************)
(* The user store and the product endpoint.                                *)
(***************************************************************************)
\* models.py 7-13: a row of table user
User(id, name, pin_hash, is_admin) ==
    [id |-> id, name |-> name, pin_hash |-> pin_hash, is_admin |-> is_admin]

\* werkzeug: the hash is opaque and matches the pin it was made from only
generate_password_hash(pin) == [method |-> "pbkdf2", of |-> pin]

check_password_hash(pwhash, pin) == pwhash = generate_password_hash(pin)

\* app.py 40-44: the admin created at startup
DefaultAdmin == "admin"
ADMIN_PIN == "1234"

\* a JSON number where a string is expected: truthy, and .strip() or the
\* hash check raises on it
NotAString == "<number>"

NoRequest == [op |-> "none"]
NoResponse == [status |-> 0, ok |-> FALSE]

Response(status) == [status |-> status, ok |-> status = 200]

HasUser(us, name) == \E k \in 1..Len(us) : us[k].name = name

\* User.query.filter_by(name=name).first()
QueryUser(us, name) == us[CHOOSE k \in 1..Len(us) : us[k].name = name]

\* a product as Product(barcode=barcode) leaves it: name, price and cost are
\* NULL, qty and is_new take the column defaults.  A NULL price or cost is
\* held as 0: only to_dict and the margin of ai_suggest, which the model
\* leaves out of its response, tell the two apart
NoName == "NULL"

NewProduct(id, barcode, clock) ==
    [Product(id, barcode, NoName, 0, 0, 0) EXCEPT !.created_at = clock]

NextProductId(db) ==
    LET ids == {db.catalog[b].id : b \in DOMAIN db.catalog}
    IN  IF ids = {} THEN 1 ELSE (CHOOSE m \in ids : \A n \in ids : n <= m) + 1

\* x or 0
OrZero(raw) == IF Truthy(raw) THEN raw ELSE Num(0)

\* app.py 183-206: POST /api/products
create_or_update_product(db, data, clock) ==
    IF data.barcode = ""
    THEN [db |-> db, resp |-> Response(400)]
    ELSE
        LET found == data.barcode \in DOMAIN db.catalog
            product == IF found THEN db.catalog[data.barcode]
                       ELSE NewProduct(NextProductId(db), data.barcode, clock)
            price == ToFloat(OrZero(data.price))
            cost == ToFloat(OrZero(data.cost))
            qty == ToInt(OrZero(data.qty))
            p1 == IF data.name.k = "absent" THEN product
                  ELSE [product EXCEPT !.name = IF data.name.k = "null" THEN NoName
                                                ELSE data.name.v]
            p2 == IF data.price.k = "absent" THEN p1 ELSE [p1 EXCEPT !.price = price.v]
            p3 == IF data.cost.k = "absent" THEN p2 ELSE [p2 EXCEPT !.cost = cost.v]
            p4 == IF data.qty.k = "absent" THEN p3 ELSE [p3 EXCEPT !.qty = qty.v]
            p5 == IF data.is_new.k = "absent" THEN p4
                  ELSE [p4 EXCEPT !.is_new = Truthy(data.is_new)]
            raised == \/ data.price.k # "absent" /\ ~price.ok
                      \/ data.cost.k # "absent" /\ ~cost.ok
                      \/ data.qty.k # "absent" /\ ~qty.ok
        IN  IF raised
            THEN [db |-> db, resp |-> Response(500)]
            ELSE [db |-> [db EXCEPT !.catalog =
                             [b \in DOMAIN db.catalog \cup {data.barcode} |->
                                 IF b = data.barcode THEN p5 ELSE db.catalog[b]]],
                  resp |-> Response(200)]

Text(s) == [k |-> "text", v |-> s]
Bool(x) == [k |-> "bool", v |-> x]

\* bodies of POST /api/products
ProductData(barcode, name, price, cost, qty, is_new) ==
    [barcode |-> barcode, name |-> name, price |-> price, cost |-> cost,
     qty |-> qty, is_new |-> is_new]

UpsertInputs ==
    {ProductData(b, Absent, Absent, Absent, q, Absent) :
        b \in {"111", "999", ""}, q \in {Absent, Num(-1), Num(2), Null, Bad}}
    \cup {ProductData(b, Text("tea"), Num(9), Str(7), q, Bool(FALSE)) :
        b \in {"111", "999"}, q \in {Num(-1), Num(2), Str(1)}}
    \cup {ProductData("999", Null, Bad, Absent, Num(2), Absent)}

(***************************************************************************)
(* Spec: requests one after another.                                       *)
(***************************************************************************)
Init ==
    /\ backend \in {"sqlite", "postgres"}
    /\ \E q \in 0..MaxStock :
          catalog = [b \in {"111", "222"} |->
                        IF b = "111" THEN Product(1, "111", "milk", 6, 4, q)
                        ELSE Product(2, "222", "bread", 5, 3, 2)]
    /\ transactions = <<>>
    /\ tlines = <<>>
    /\ txSeq = 0
    /\ lineSeq = 0
    /\ now = 5
    /\ req = <<>>
    /\ ack = <<>>
    /\ updated_products = <<>>
    /\ pre = DB
    /\ prevAck = <<>>
    /\ resent = FALSE
    /\ nsub = 0
    /\ nresent = 0
    /\ wk = [w \in Workers |-> Idle]
    /\ lock = 0
    /\ users = <<User(1, DefaultAdmin, generate_password_hash(ADMIN_PIN), TRUE)>>
    /\ apiReq = NoRequest
    /\ apiResp = NoResponse
    /\ preUsers = users
    /\ nupsert = 0

\* one POST /api/sync, run to completion
Respond(txs, isResend) ==
    LET r == sync_transactions(DB, txs, now)
    IN  /\ catalog' = r.db.catalog
        /\ transactions' = r.db.transactions
        /\ tlines' = r.db.lines
        /\ txSeq' = r.db.txSeq
        /\ lineSeq' = r.db.lineSeq
        /\ now' = now + 1
        /\ req' = txs
        /\ ack' = r.ack
        /\ updated_products' = r.up
        /\ pre' = DB
        /\ prevAck' = ack
        /\ resent' = isResend
        /\ apiReq' = NoRequest
        /\ apiResp' = NoResponse
        /\ UNCHANGED <<backend, concVars, users, preUsers, nupsert>>

\* a client posts a fresh batch
Sync ==
    \E txs \in Batches(MaxSubmitted - nsub) :
        /\ txs # <<>>
        /\ nsub' = nsub + Len(txs)
        /\ UNCHANGED nresent
        /\ Respond(txs, FALSE)

\* a client that lost the response posts its last batch again
Resend ==
    /\ req # <<>>
    /\ nresent < MaxResend
    /\ nresent' = nresent + 1
    /\ UNCHANGED nsub
    /\ Respond(req, TRUE)

Next == Sync \/ Resend

Spec == Init /\ [][Next]_vars

(***************************************************************************)
(* SpecConc: two /api/sync requests in flight (Flask serves each request   *)
(* on its own thread with its own session).  A thread sees the committed   *)
(* store plus what its own session holds.  sqlite lets one connection      *)
(* write at a time: the INSERT of the flush takes the database lock until  *)
(* commit or rollback, and a thread that cannot get it in time fails with  *)
(* "database is locked".  postgres (READ COMMITTED) takes no lock for a    *)
(* read, and an UPDATE writes the value the session computed.              *)
(***************************************************************************)
ConcLines == {Line("111", Num(1)), Line("111", Num(3))}

ConcTxs ==
    {Tx("a", Num(10), Iso(1), "cash", ls) :
        ls \in {<<Line("111", Num(1))>>, <<Line("111", Num(3))>>,
                <<Line("111", Num(1)), Line("111", Num(3))>>,
                <<Line("111", Num(3)), Line("111", Bad)>>}}

ConcBatches == SeqsUpTo(ConcTxs, MaxConcBatch) \ {<<>>}

\* the thread moves on to the next transaction of its batch
NextTx(w, up, a) ==
    [wk EXCEPT ![w] = [pc |-> "tx", req |-> wk[w].req, i |-> wk[w].i + 1, j |-> 1,
                       s |-> NoSession, up |-> up, ack |-> Append(wk[w].ack, a)]]

\* app.py 217-220: a request arrives
Receive(w) ==
    /\ wk[w].pc = "idle"
    /\ \E txs \in ConcBatches :
          wk' = [wk EXCEPT ![w] = [Idle EXCEPT !.pc = "tx", !.req = txs]]
    /\ UNCHANGED <<backend, storeVars, now, seqVars, apiVars, lock>>

\* app.py 223-235: the head of the loop body, up to the flush
TxBegin(w) ==
    /\ wk[w].pc = "tx"
    /\ wk[w].i <= Len(wk[w].req)
    /\ LET tx == wk[w].req[wk[w].i]
           s == BeginTx(DB, wk[w].up, tx, now)
       IN  IF s.err # NoError
           THEN /\ wk' = NextTx(w, s.up, AckError(tx, s))
                /\ UNCHANGED <<txSeq, lock>>
           ELSE /\ backend = "sqlite" => lock = 0
                /\ lock' = IF backend = "sqlite" THEN w ELSE lock
                /\ txSeq' = s.txSeq
                /\ wk' = [wk EXCEPT ![w].pc = "line", ![w].j = 1, ![w].s = s]
    /\ UNCHANGED <<backend, catalog, transactions, tlines, lineSeq, now, seqVars, apiVars>>

\* app.py 235, 255-257: sqlite, the flush times out waiting for the lock
TxLocked(w) ==
    /\ wk[w].pc = "tx"
    /\ wk[w].i <= Len(wk[w].req)
    /\ backend = "sqlite"
    /\ lock \notin {0, w}
    /\ LET tx == wk[w].req[wk[w].i]
           s == BeginTx(DB, wk[w].up, tx, now)
       IN  /\ s.err = NoError
           /\ wk' = NextTx(w, s.up, AckError(tx, [s EXCEPT !.err = "OperationalError"]))
    /\ UNCHANGED <<backend, storeVars, now, seqVars, apiVars, lock>>

\* app.py 238-251, 255-257: one line of the transaction
LineStep(w) ==
    /\ wk[w].pc = "line"
    /\ wk[w].j <= Len(wk[w].req[wk[w].i].lines)
    /\ LET tx == wk[w].req[wk[w].i]
           s == StoreLine(DB, [wk[w].s EXCEPT !.lineSeq = lineSeq], tx.lines[wk[w].j])
       IN  IF s.err # NoError
           THEN /\ wk' = NextTx(w, s.up, AckError(tx, s))
                /\ lock' = IF lock = w THEN 0 ELSE lock
                /\ lineSeq' = Rollback(DB, s).lineSeq
           ELSE /\ wk' = [wk EXCEPT ![w].j = @ + 1, ![w].s = s]
                /\ lineSeq' = s.lineSeq
                /\ UNCHANGED lock
    /\ UNCHANGED <<backend, catalog, transactions, tlines, txSeq, now, seqVars, apiVars>>

\* app.py 253-254: commit and acknowledge
CommitTx(w) ==
    /\ wk[w].pc = "line"
    /\ wk[w].j > Len(wk[w].req[wk[w].i].lines)
    /\ LET tx == wk[w].req[wk[w].i]
           s == [wk[w].s EXCEPT !.txSeq = txSeq, !.lineSeq = lineSeq]
           db == Commit(DB, s)
       IN  /\ catalog' = db.catalog
           /\ transactions' = db.transactions
           /\ tlines' = db.lines
           /\ wk' = NextTx(w, s.up, AckOk(tx, s))
    /\ lock' = IF lock = w THEN 0 ELSE lock
    /\ UNCHANGED <<backend, txSeq, lineSeq, now, seqVars, apiVars>>

\* app.py 259: the response
Return(w) ==
    /\ wk[w].pc = "tx"
    /\ wk[w].i > Len(wk[w].req)
    /\ wk' = [wk EXCEPT ![w].pc = "done"]
    /\ UNCHANGED <<backend, storeVars, now, seqVars, apiVars, lock>>

NextConc ==
    \E w \in Workers :
        \/ Receive(w)
        \/ TxBegin(w)
        \/ TxLocked(w)
        \/ LineStep(w)
        \/ CommitTx(w)
        \/ Return(w)

SpecConc == Init /\ [][NextConc]_vars

(***************************************************************************)
(* SpecCatalog: the catalog under product upserts and sync requests, one   *)
(* request after another.                                                  *)
(***************************************************************************)
CatalogTxs ==
    {Tx("a", Num(10), Iso(1), "cash", ls) :
        ls \in {<<Line("111", Num(1))>>,
                <<Line("111", Num(3)), Line("999", Num(1))>>,
                <<Line("111", Num(-1))>>,
                <<Line("111", Num(3)), Line("111", Bad)>>}}

CatalogBatches == {<<tx>> : tx \in CatalogTxs}

\* sum(l.qty for l in lines) over the lines of a barcode
RECURSIVE SumLineQty(_, _, _)
SumLineQty(rows, barcode, k) ==
    IF k > Len(rows) THEN 0
    ELSE (IF rows[k].barcode = barcode THEN rows[k].qty ELSE 0)
         + SumLineQty(rows, barcode, k + 1)

\* int(x) of a float x > 0 given as the fraction num / den of whole numbers
IntOfFraction(num, den) == num \div den

\* a heuristic that applies the target whether or not there were sales
ai_suggestAlwaysTargets(db, data) ==
    LET lookback_days == ToInt(Get(data.lookback_days, Num(14)))
    IN  IF ~lookback_days.ok THEN [db |-> db, resp |-> Response(500)]
        ELSE IF data.barcode = "" THEN [db |-> db, resp |-> Response(400)]
        ELSE IF data.barcode \notin DOMAIN db.catalog
        THEN [db |-> db, resp |-> Response(404)]
        ELSE
            LET prod == db.catalog[data.barcode]
                total_sold == SumLineQty(db.lines, data.barcode, 1)
                days == Max(1, lookback_days.v)
                target == Max(IntOfFraction(Max(0, total_sold) * 14, days), 5)
            IN  [db |-> db,
                 resp |-> [status |-> 200, ok |-> TRUE,
                           total_sold_in_history |-> total_sold,
                           avg_daily_estimate |-> <<total_sold, days>>,
                           suggested_reorder_qty |-> Max(0, target - prod.qty),
                           safety_target_days |-> 14]]

\* app.py 264-319: POST /api/ai/suggest.  avg_daily is the fraction
\* total_sold / max(1, lookback_days); the response carries it as the pair
\* of both.  days_of_cover, the margins and the research note of the
\* response are left out.
ai_suggest(db, data) ==
    LET lookback_days == ToInt(Get(data.lookback_days, Num(14)))
    IN  IF ~lookback_days.ok THEN [db |-> db, resp |-> Response(500)]
        ELSE IF data.barcode = "" THEN [db |-> db, resp |-> Response(400)]
        ELSE IF data.barcode \notin DOMAIN db.catalog
        THEN [db |-> db, resp |-> Response(404)]
        ELSE
            LET prod == db.catalog[data.barcode]
                total_sold == SumLineQty(db.lines, data.barcode, 1)
                days == Max(1, lookback_days.v)
                target == Max(IntOfFraction(total_sold * 14, days), 5)
                suggested_reorder == IF total_sold > 0 THEN Max(0, target - prod.qty)
                                     ELSE 0
            IN  [db |-> db,
                 resp |-> [status |-> 200, ok |-> TRUE,
                           total_sold_in_history |-> total_sold,
                           avg_daily_estimate |-> <<total_sold, days>>,
                           suggested_reorder_qty |-> suggested_reorder,
                           safety_target_days |-> 14]]

\* bodies of POST /api/ai/suggest
SuggestInputs ==
    [barcode : {"111", "999", ""},
     lookback_days : {Absent, Num(0), Num(1), Num(3), Bad}]

\* POST /api/products, run to completion
UpsertProduct ==
    /\ nupsert < MaxUpserts
    /\ \E data \in UpsertInputs :
          LET r == create_or_update_product(DB, data, now)
          IN  /\ catalog' = r.db.catalog
              /\ apiReq' = [op |-> "product", data |-> data]
              /\ apiResp' = r.resp
    /\ nupsert' = nupsert + 1
    /\ pre' = DB
    /\ preUsers' = users
    /\ UNCHANGED <<backend, transactions, tlines, txSeq, lineSeq, now, req, ack,
                   updated_products, prevAck, resent, nsub, nresent, concVars,
                   users>>

\* POST /api/sync with a batch of one transaction
SyncCatalog ==
    /\ nsub < MaxSubmitted
    /\ \E txs \in CatalogBatches :
          /\ nsub' = nsub + Len(txs)
          /\ UNCHANGED nresent
          /\ Respond(txs, FALSE)

\* POST /api/ai/suggest, run to completion
AiSuggest ==
    /\ \E data \in SuggestInputs :
          LET r == ai_suggest(DB, data)
          IN  /\ catalog' = r.db.catalog
              /\ transactions' = r.db.transactions
              /\ tlines' = r.db.lines
              /\ txSeq' = r.db.txSeq
              /\ lineSeq' = r.db.lineSeq
              /\ apiReq' = [op |-> "suggest", data |-> data]
              /\ apiResp' = r.resp
    /\ pre' = DB
    /\ preUsers' = users
    /\ UNCHANGED <<backend, now, req, ack, updated_products, prevAck, resent, nsub,
                   nresent, concVars, users, nupsert>>

NextCatalog == UpsertProduct \/ SyncCatalog \/ AiSuggest

SpecCatalog == Init /\ [][NextCatalog]_vars

(***************************************************************************)
(* SpecAuth: the user store under the admin-gated endpoints, one request   *)
(* after another.  A credential is a string, "" when the field is missing, *)
(* null or blank, or a JSON number.                                        *)
(***************************************************************************)
\* a check that accepts the credentials of any user
require_adminAnyUser(us, name, pin) ==
    IF name = "" \/ pin = "" THEN "none"
    ELSE IF ~HasUser(us, name) THEN "none"
    ELSE IF pin = NotAString THEN "raise"
    ELSE IF check_password_hash(QueryUser(us, name).pin_hash, pin) THEN "user"
    ELSE "none"

\* app.py 52-61: "user" when (name, pin) belongs to an admin, "none" when
\* not, "raise" when the hash check raises on a pin that is no string
require_admin(us, name, pin) ==
    IF name = "" \/ pin = "" THEN "none"
    ELSE IF ~HasUser(us, name) THEN "none"
    ELSE IF pin = NotAString THEN "raise"
    ELSE IF check_password_hash(QueryUser(us, name).pin_hash, pin)
            /\ QueryUser(us, name).is_admin THEN "user"
    ELSE "none"

NextUserId(us) == MaxId(us) + 1

\* app.py 87-116: POST /api/auth/create_user
create_user(us, data) ==
    LET is_admin == Truthy(Get(data.is_admin, Bool(FALSE)))
        admin == require_admin(us, data.admin_name, data.admin_pin)
    IN  IF data.pin = NotAString THEN [users |-> us, resp |-> Response(500)]
        ELSE IF data.admin_name = "" \/ data.admin_pin = ""
        THEN [users |-> us, resp |-> Response(403)]
        ELSE IF admin = "raise" THEN [users |-> us, resp |-> Response(500)]
        ELSE IF admin = "none" THEN [users |-> us, resp |-> Response(403)]
        ELSE IF data.name = "" \/ data.pin = ""
        THEN [users |-> us, resp |-> Response(400)]
        ELSE IF HasUser(us, data.name) THEN [users |-> us, resp |-> Response(400)]
        ELSE [users |-> Append(us, User(NextUserId(us), data.name,
                                        generate_password_hash(data.pin), is_admin)),
              resp |-> Response(200)]

\* app.py 136-161: POST /api/auth/change_pin
change_pin(us, data) ==
    LET admin == require_admin(us, data.admin_name, data.admin_pin)
    IN  IF data.new_pin = NotAString THEN [users |-> us, resp |-> Response(500)]
        ELSE IF data.target_name = "" \/ data.new_pin = ""
                \/ data.admin_name = "" \/ data.admin_pin = ""
        THEN [users |-> us, resp |-> Response(400)]
        ELSE IF admin = "raise" THEN [users |-> us, resp |-> Response(500)]
        ELSE IF admin = "none" THEN [users |-> us, resp |-> Response(403)]
        ELSE IF ~HasUser(us, data.target_name)
        THEN [users |-> us, resp |-> Response(404)]
        ELSE [users |-> [k \in 1..Len(us) |->
                            IF us[k].name = data.target_name
                            THEN [us[k] EXCEPT
                                     !.pin_hash = generate_password_hash(data.new_pin)]
                            ELSE us[k]],
              resp |-> Response(200)]

\* the credentials requests carry: the admin, a user the admin may have
\* created, a name no user has, and no name
AdminNames == {DefaultAdmin, "bob", "ghost", ""}
AdminPins == {ADMIN_PIN, "1111", "", NotAString}

CreateUserInputs ==
    [name : {"bob", DefaultAdmin, ""}, pin : {"1111", "", NotAString},
     is_admin : {Absent, Bool(TRUE)}, admin_name : AdminNames, admin_pin : AdminPins]

ChangePinInputs ==
    [target_name : {DefaultAdmin, "bob", "ghost", ""}, new_pin : {"1111", ADMIN_PIN, ""},
     admin_name : AdminNames, admin_pin : AdminPins]

AuthRespond(op, data, r) ==
    /\ users' = r.users
    /\ apiReq' = [op |-> op, data |-> data]
    /\ apiResp' = r.resp
    /\ preUsers' = users
    /\ UNCHANGED <<backend, storeVars, now, seqVars, concVars, nupsert>>

CreateUser == \E data \in CreateUserInputs : AuthRespond("create_user", data, create_user(users, data))

ChangePin == \E data \in ChangePinInputs : AuthRespond("change_pin", data, change_pin(users, data))

NextAuth == CreateUser \/ ChangePin

\* the user store does not depend on the backend or on the catalog
InitAuth == Init /\ backend = "sqlite" /\ catalog["111"].qty = 0

SpecAuth == InitAuth /\ [][NextAuth]_vars

(***************************************************************************)
(* The claims.  What a claim says of a request is read off the request     *)
(* (req), the store before it (pre), the store after it and the response.  *)
(***************************************************************************)
Responded == req # <<>>

\* a field the conversions of the handler reject
BadField(raw) == raw.k \in {"bad", "null"}

\* the number a submitted field stands for (an absent field counts as 0)
NumVal(raw) == IF raw.k \in {"num", "str"} THEN raw.v ELSE 0

\* the transaction raises inside the try: a bad total, or a bad qty, price or
\* cost on one of its lines
Fails(tx) ==
    \/ BadField(tx.total)
    \/ \E j \in 1..Len(tx.lines) :
          BadField(tx.lines[j].qty) \/ BadField(tx.lines[j].price) \/ BadField(tx.lines[j].cost)

Valid(tx) == ~Fails(tx)

ValidIdx == {i \in 1..Len(req) : Valid(req[i])}

RECURSIVE SumLen(_, _)
SumLen(txs, i) ==
    IF i > Len(txs) THEN 0
    ELSE (IF Valid(txs[i]) THEN Len(txs[i].lines) ELSE 0) + SumLen(txs, i + 1)

\* the stock of barcode b after the lines ls, each floored at zero
RECURSIVE RefLines(_, _, _, _)
RefLines(q, b, ls, j) ==
    IF j > Len(ls) THEN q
    ELSE RefLines(IF ls[j].barcode = b THEN Max(0, q - NumVal(ls[j].qty)) ELSE q,
                  b, ls, j + 1)

\* the stock of barcode b after the valid transactions of txs, in order
RECURSIVE RefBatch(_, _, _, _)
RefBatch(q, b, txs, i) ==
    IF i > Len(txs) THEN q
    ELSE RefBatch(IF Valid(txs[i]) THEN RefLines(q, b, txs[i].lines, 1) ELSE q,
                  b, txs, i + 1)

\* the ledger as it is retrieved: each transaction with the lines it owns,
\* without the ids the server assigned
LinesOf(rows, tid) ==
    LET Owned(l) == l.transaction_id = tid IN SelectSeq(rows, Owned)

LineView(l) ==
    [barcode |-> l.barcode, name |-> l.name, qty |-> l.qty, price |-> l.price,
     cost |-> l.cost]

TxView(t, rows) ==
    LET ls == LinesOf(rows, t.id)
    IN  [created_at |-> t.created_at, total |-> t.total,
         payment_type |-> t.payment_type, synced |-> t.synced,
         lines |-> [j \in 1..Len(ls) |-> LineView(ls[j])]]

LedgerView(ts, rows) == [i \in 1..Len(ts) |-> TxView(ts[i], rows)]

Remove(seq, k) == [i \in 1..(Len(seq) - 1) |-> IF i < k THEN seq[i] ELSE seq[i + 1]]

\* C1: the ack list of a sync response has one entry per transaction of the
\* request, in the order of the request, and entry i carries the local_id of
\* transaction i, whether the transaction committed or failed.
C1_AckMatchesBatch ==
    Responded =>
        /\ Len(ack) = Len(req)
        /\ \A i \in 1..Len(req) : ack[i].local_id = req[i].local_id

\* a batch of two with different local ids, the first failing, the second committing
C1_Witness ==
    /\ Len(req) = 2
    /\ Len(ack) = 2
    /\ req[1].local_id # req[2].local_id
    /\ ack[1].status = "error"
    /\ ack[2].status = "ok"

\* C2: from a catalog with every qty >= 0, after any sequence of sync batches
\* (oversold lines and failing transactions included) every committed product
\* qty is >= 0.
C2_StockNeverNegative ==
    \A b \in DOMAIN catalog : catalog[b].qty >= 0

\* a committed line sold more than was in stock, and the stock is 0
C2_Witness ==
    /\ Responded
    /\ \E i \in 1..Len(req) : \E j \in 1..Len(req[i].lines) :
          /\ Valid(req[i])
          /\ req[i].lines[j].barcode = "111"
          /\ NumVal(req[i].lines[j].qty) > pre.catalog["111"].qty
    /\ pre.catalog["111"].qty > 0
    /\ catalog["111"].qty = 0

\* C3: a transaction that fails at any step commits nothing: its ack has
\* status "error", an error message and no server_id; the ledger gets a
\* Transaction and lines only for the transactions that did not fail; and every
\* product qty is what the transactions that did not fail make of it.
C3_FailedTxCommitsNothing ==
    Responded =>
        /\ Len(ack) = Len(req)
        /\ \A i \in 1..Len(req) :
              Fails(req[i]) =>
                  /\ ack[i].status = "error"
                  /\ "error" \in DOMAIN ack[i]
                  /\ ack[i].error \notin {"", NoError}
                  /\ "server_id" \notin DOMAIN ack[i]
        /\ Len(transactions) = Len(pre.transactions) + Cardinality(ValidIdx)
        /\ Len(tlines) = Len(pre.lines) + SumLen(req, 1)
        /\ \A k \in (Len(pre.transactions) + 1)..Len(transactions) :
              \E i \in ValidIdx :
                  /\ "server_id" \in DOMAIN ack[i]
                  /\ ack[i].server_id = transactions[k].id
        /\ \A k \in (Len(pre.lines) + 1)..Len(tlines) :
              \E i \in ValidIdx :
                  /\ "server_id" \in DOMAIN ack[i]
                  /\ ack[i].server_id = tlines[k].transaction_id
        /\ \A b \in DOMAIN catalog :
              catalog[b].qty = RefBatch(pre.catalog[b].qty, b, req, 1)

\* a transaction failed on its second line after its first line had taken
\* stock of product 111, and the stock is back
C3_Witness ==
    /\ Len(req) = 1
    /\ Len(ack) = 1
    /\ Len(req[1].lines) = 2
    /\ req[1].lines[1] = Line("111", Num(3))
    /\ BadField(req[1].lines[2].qty)
    /\ ack[1].status = "error"
    /\ pre.catalog["111"].qty = 3
    /\ catalog["111"].qty = 3
    /\ transactions = <<>>

\* C4: a failing transaction neither aborts nor rolls back another transaction
\* of its batch: every valid transaction is acknowledged "ok", and the store
\* after the batch is the store after the same batch without the failing
\* transaction (the ledger compared as retrieved, and row for row on sqlite,
\* where a rolled back insert leaves no gap in the ids).
C4_PerTransactionIsolation ==
    Responded =>
        /\ Len(ack) = Len(req)
        /\ \A i \in ValidIdx : ack[i].status = "ok"
        /\ \A k \in 1..Len(req) :
              Fails(req[k]) =>
                  LET alt == sync_transactions(pre, Remove(req, k), now - 1)
                  IN  /\ catalog = alt.db.catalog
                      /\ LedgerView(transactions, tlines)
                            = LedgerView(alt.db.transactions, alt.db.lines)
                      /\ backend = "sqlite" =>
                            /\ transactions = alt.db.transactions
                            /\ tlines = alt.db.lines
                      /\ Len(alt.ack) = Len(req) - 1
                      /\ \A i \in 1..(Len(req) - 1) :
                            alt.ack[i].status = ack[IF i < k THEN i ELSE i + 1].status

\* a failing transaction first, then a valid one that committed and took stock
C4_Witness ==
    /\ Len(req) = 2
    /\ Len(ack) = 2
    /\ Fails(req[1])
    /\ Len(req[1].lines) = 2
    /\ Valid(req[2])
    /\ ack[2].status = "ok"
    /\ Len(transactions) = Len(pre.transactions) + 1
    /\ catalog["111"].qty < pre.catalog["111"].qty

\* a valid transaction that committed and took stock, then a failing one
C4_WitnessAfter ==
    /\ Len(req) = 2
    /\ Len(ack) = 2
    /\ Valid(req[1])
    /\ Fails(req[2])
    /\ ack[1].status = "ok"
    /\ Len(transactions) = Len(pre.transactions) + 1
    /\ catalog["111"].qty < pre.catalog["111"].qty

\* C5: updated_products holds at most one snapshot per barcode, and the qty of
\* each snapshot is the committed qty of that product at the end of the batch,
\* also when a transaction that touched the barcode failed and was rolled back.
C5_SnapshotsAreCommittedState ==
    Responded =>
        /\ \A i, j \in 1..Len(updated_products) :
              updated_products[i].barcode = updated_products[j].barcode => i = j
        /\ \A i \in 1..Len(updated_products) :
              /\ updated_products[i].barcode \in DOMAIN catalog
              /\ updated_products[i].qty = catalog[updated_products[i].barcode].qty

\* the part of C5 the handler keeps: one snapshot per barcode, and the
\* committed qty whenever no transaction of the batch failed
C5_SnapshotsWhenNothingFails ==
    Responded =>
        /\ \A i, j \in 1..Len(updated_products) :
              updated_products[i].barcode = updated_products[j].barcode => i = j
        /\ (\A k \in 1..Len(req) : Valid(req[k])) =>
              \A i \in 1..Len(updated_products) :
                  /\ updated_products[i].barcode \in DOMAIN catalog
                  /\ updated_products[i].qty = catalog[updated_products[i].barcode].qty

\* the total of the qty of the lines of txs with barcode b
RECURSIVE SumLines(_, _, _)
SumLines(b, ls, j) ==
    IF j > Len(ls) THEN 0
    ELSE (IF ls[j].barcode = b THEN NumVal(ls[j].qty) ELSE 0) + SumLines(b, ls, j + 1)

RECURSIVE SumQty(_, _, _)
SumQty(b, txs, i) ==
    IF i > Len(txs) THEN 0 ELSE SumLines(b, txs[i].lines, 1) + SumQty(b, txs, i + 1)

Sold(b, txs) ==
    \E i \in 1..Len(txs) : \E j \in 1..Len(txs[i].lines) : txs[i].lines[j].barcode = b

AllCommitted ==
    /\ Len(ack) = Len(req)
    /\ \A i \in 1..Len(req) : ack[i].status = "ok"

NoNegativeQty(txs) ==
    \A i \in 1..Len(txs) : \A j \in 1..Len(txs[i].lines) :
        /\ ~BadField(txs[i].lines[j].qty)
        /\ NumVal(txs[i].lines[j].qty) >= 0

\* C6: after a batch in which every transaction commits and every line qty is
\* a non-negative integer, the qty of each existing product is
\* max(0, qty before - total qty of the lines of the batch with its barcode),
\* and a barcode that has a line in the batch is in updated_products once,
\* with that qty.
C6_FinalQtyIsFlooredDifference ==
    (Responded /\ AllCommitted /\ NoNegativeQty(req)) =>
        \A b \in DOMAIN pre.catalog :
            LET final == Max(0, pre.catalog[b].qty - SumQty(b, req, 1))
            IN  /\ b \in DOMAIN catalog
                /\ catalog[b].qty = final
                /\ Sold(b, req) =>
                      /\ Cardinality({k \in 1..Len(updated_products) :
                                         updated_products[k].barcode = b}) = 1
                      /\ \A k \in 1..Len(updated_products) :
                            updated_products[k].barcode = b =>
                                updated_products[k].qty = final

\* two committed transactions sell 1 and 3 of product 111 with 3 in stock:
\* the stock is 0 and 111 is in updated_products once, with qty 0
C6_Witness ==
    /\ Responded /\ AllCommitted /\ NoNegativeQty(req)
    /\ Len(req) = 2
    /\ req[1].lines = <<Line("111", Num(1))>>
    /\ req[2].lines = <<Line("111", Num(3))>>
    /\ pre.catalog["111"].qty = 3
    /\ catalog["111"].qty = 0
    /\ Len(updated_products) = 1
    /\ updated_products[1].barcode = "111"
    /\ updated_products[1].qty = 0

\* C7: a line whose barcode matches no product is no error: its transaction,
\* if otherwise valid, is acknowledged "ok", the line is in the ledger under
\* the transaction's server_id, no product exists for the barcode afterwards
\* (the catalog has the products it had), and the barcode is not in
\* updated_products.
C7_UnknownBarcodeIsSkipped ==
    Responded =>
        /\ Len(ack) = Len(req)
        /\ DOMAIN catalog = DOMAIN pre.catalog
        /\ \A i \in ValidIdx : \A j \in 1..Len(req[i].lines) :
              LET line == req[i].lines[j]
              IN  line.barcode \notin DOMAIN pre.catalog =>
                      /\ ack[i].status = "ok"
                      /\ "server_id" \in DOMAIN ack[i]
                      /\ LET ls == LinesOf(tlines, ack[i].server_id)
                         IN  /\ Len(ls) >= j
                             /\ ls[j].barcode = line.barcode
                             /\ ls[j].qty = NumVal(line.qty)
                      /\ line.barcode \notin DOMAIN catalog
                      /\ \A k \in 1..Len(updated_products) :
                            updated_products[k].barcode # line.barcode

\* one transaction selling product 111 and the unregistered barcode 999: it
\* committed with both lines, and updated_products holds 111 only
C7_Witness ==
    /\ Len(req) = 1
    /\ Len(ack) = 1
    /\ req[1].lines = <<Line("111", Num(3)), Line("999", Num(1))>>
    /\ pre.catalog["111"].qty = 3
    /\ ack[1].status = "ok"
    /\ Len(LinesOf(tlines, ack[1].server_id)) = 2
    /\ Len(updated_products) = 1
    /\ updated_products[1].barcode = "111"
    /\ updated_products[1].qty = 0

\* C8: a transaction acknowledged "ok" that was submitted with N lines has
\* exactly one ledger Transaction with the returned server_id, and that
\* Transaction owns exactly N lines, in the order submitted, each with the
\* barcode and the numbers of qty, price and cost as submitted.
C8_LedgerRoundTrip ==
    Responded =>
        /\ Len(ack) = Len(req)
        /\ \A i \in 1..Len(req) :
              ack[i].status = "ok" =>
                  LET sid == ack[i].server_id
                      ls == LinesOf(tlines, sid)
                  IN  /\ Cardinality({k \in 1..Len(transactions) :
                                         transactions[k].id = sid}) = 1
                      /\ Len(ls) = Len(req[i].lines)
                      /\ \A j \in 1..Len(ls) :
                            /\ ls[j].barcode = req[i].lines[j].barcode
                            /\ ls[j].qty = NumVal(req[i].lines[j].qty)
                            /\ ls[j].price = NumVal(req[i].lines[j].price)
                            /\ ls[j].cost = NumVal(req[i].lines[j].cost)

\* a batch of two committed transactions, one with two lines (one of them with
\* its qty sent as a string), one with one line
C8_Witness ==
    /\ Responded /\ AllCommitted
    /\ Len(req) = 2
    /\ req[1].lines = <<Line("111", Str(2)), Line("222", Absent)>>
    /\ Len(req[2].lines) = 1
    /\ Len(LinesOf(tlines, ack[1].server_id)) = 2
    /\ Len(LinesOf(tlines, ack[2].server_id)) = 1

\* C9: a valid batch submitted a second time is processed again in full: each
\* of its transactions gets a second ledger Transaction with the same content
\* and lines and a server_id different from the first one, and the stock of
\* every product is decremented a second time, floored at zero.
C9_ResendIsNotIdempotent ==
    (resent /\ \A i \in 1..Len(req) : Valid(req[i])) =>
        /\ Len(ack) = Len(req)
        /\ Len(prevAck) = Len(req)
        /\ Len(transactions) = Len(pre.transactions) + Len(req)
        /\ Len(tlines) = Len(pre.lines) + SumLen(req, 1)
        /\ \A i \in 1..Len(req) :
              /\ ack[i].status = "ok"
              /\ prevAck[i].status = "ok"
              /\ ack[i].server_id # prevAck[i].server_id
              /\ \A k \in 1..Len(pre.transactions) :
                    pre.transactions[k].id # ack[i].server_id
              /\ \E k1 \in 1..Len(pre.transactions) :
                 \E k2 \in (Len(pre.transactions) + 1)..Len(transactions) :
                    /\ transactions[k1].id = prevAck[i].server_id
                    /\ transactions[k2].id = ack[i].server_id
                    /\ transactions[k1].total = transactions[k2].total
                    /\ TxView(transactions[k1], tlines).lines
                          = TxView(transactions[k2], tlines).lines
        /\ \A b \in DOMAIN catalog :
              catalog[b].qty = RefBatch(pre.catalog[b].qty, b, req, 1)

\* a valid batch of two was sent twice, and the second time took stock of
\* product 111 again
C9_Witness ==
    /\ resent
    /\ Len(req) = 2
    /\ \A i \in 1..Len(req) : Valid(req[i])
    /\ Len(transactions) = 4
    /\ pre.catalog["111"].qty = 2
    /\ catalog["111"].qty = 1

\* C10: with two sync requests in flight that touch the same barcode, under
\* every interleaving of their flushes, product reads, commits and rollbacks,
\* no committed product qty is negative, and no session holds a negative qty
\* it is about to commit.
C10_ConcurrentStockNeverNegative ==
    /\ \A b \in DOMAIN catalog : catalog[b].qty >= 0
    /\ \A w \in Workers : \A b \in DOMAIN wk[w].s.seen :
          wk[w].s.seen[b].row.qty >= 0

\* a request is inside a transaction that read product 111 before the other
\* request committed its sale of it, and the committed stock is now 0
C10_Witness ==
    \E w \in Workers :
        /\ wk[w].pc = "line"
        /\ "111" \in DOMAIN wk[w].s.seen
        /\ wk[w].s.seen["111"].loaded.qty > catalog["111"].qty
        /\ wk[w].s.seen["111"].row.qty < wk[w].s.seen["111"].loaded.qty
        /\ catalog["111"].qty = 0
        /\ Len(transactions) >= 1

\* the qty of the lines of the batches of both requests with barcode b
SoldByAll(b) == SumQty(b, wk[1].req, 1) + SumQty(b, wk[2].req, 1)

BothDone ==
    \A w \in Workers :
        /\ wk[w].pc = "done"
        /\ \A i \in 1..Len(wk[w].ack) : wk[w].ack[i].status = "ok"

\* C11: concurrent sync requests are not serialized: a commit stores the qty
\* its session computed from its own read of the product, whatever another
\* request has committed since that read (last write wins), so a decrement
\* can be lost; and a lost decrement only ever leaves the stock higher than
\* the two batches run one after the other would.
C11_LastWriteWins ==
    [][\A w \in Workers : \A b \in DOMAIN catalog :
          (/\ wk[w].pc = "line"
           /\ wk'[w].pc = "tx"
           /\ Len(wk'[w].ack) = Len(wk[w].ack) + 1
           /\ wk'[w].ack[Len(wk'[w].ack)].status = "ok"
           /\ b \in DOMAIN wk[w].s.seen
           /\ wk[w].s.seen[b].row.qty # wk[w].s.seen[b].loaded.qty)
          => catalog'[b].qty = wk[w].s.seen[b].row.qty]_vars

\* both requests committed every transaction, and the stock of product 111 is
\* higher than after the two batches in either order (which is
\* max(0, initial - all sold), the lines having no negative qty)
C11_Witness ==
    /\ BothDone
    /\ NoNegativeQty(wk[1].req) /\ NoNegativeQty(wk[2].req)
    /\ catalog["111"].qty > Max(0, pre.catalog["111"].qty - SoldByAll("111"))

\* on sqlite the write lock taken by the flush serialises the transactions:
\* no session holds a product row that another request has changed since
C11_SqliteSerialised ==
    backend = "sqlite" =>
        /\ \A w \in Workers : \A b \in DOMAIN wk[w].s.seen :
              wk[w].pc = "line" => wk[w].s.seen[b].loaded.qty = catalog[b].qty
        /\ (BothDone /\ NoNegativeQty(wk[1].req) /\ NoNegativeQty(wk[2].req)) =>
              catalog["111"].qty = Max(0, pre.catalog["111"].qty - SoldByAll("111"))

\* the rows a response added to the ledger
NewTransactions == SubSeq(transactions, Len(pre.transactions) + 1, Len(transactions))

\* C12 (as claimed): a transaction whose total is absent or not parseable as a
\* number gets an ack with status "error" and is not committed with a total
\* defaulted to 0.
C12_AbsentOrBadTotalIsRejected ==
    Responded =>
        \A i \in 1..Len(req) :
            req[i].total.k \in {"absent", "bad", "null"} =>
                /\ ack[i].status = "error"
                /\ "server_id" \notin DOMAIN ack[i]

\* C12 (amended): a transaction whose total is present but not parseable as a
\* number (a non-numeric string or null) gets an ack with status "error" and
\* leaves no ledger entry, and the rest of the batch is processed as if it had
\* not been submitted; a transaction whose total is absent, and which is
\* otherwise valid, is committed with status "ok" and a total of 0.
C12_UnparseableTotalIsRejected ==
    Responded =>
        /\ Len(ack) = Len(req)
        /\ Len(transactions) = Len(pre.transactions) + Cardinality(ValidIdx)
        /\ \A i \in 1..Len(req) :
              /\ BadField(req[i].total) =>
                    LET alt == sync_transactions(pre, Remove(req, i), now - 1)
                    IN  /\ ack[i].status = "error"
                        /\ "server_id" \notin DOMAIN ack[i]
                        /\ catalog = alt.db.catalog
                        /\ LedgerView(transactions, tlines)
                              = LedgerView(alt.db.transactions, alt.db.lines)
              /\ (req[i].total.k = "absent" /\ Valid(req[i])) =>
                    /\ ack[i].status = "ok"
                    /\ \E k \in 1..Len(NewTransactions) :
                          /\ NewTransactions[k].id = ack[i].server_id
                          /\ NewTransactions[k].total = 0

\* a batch of a transaction without total, committed with total 0, and a
\* transaction with a non-numeric total, rejected
C12_Witness ==
    /\ Len(req) = 2
    /\ Len(ack) = 2
    /\ req[1].total.k = "absent"
    /\ req[2].total.k = "bad"
    /\ ack[1].status = "ok"
    /\ ack[2].status = "error"
    /\ Len(NewTransactions) = 1
    /\ NewTransactions[1].total = 0
    /\ catalog["111"].qty < pre.catalog["111"].qty

\* the time the handler read from the server clock while it built the
\* response (the clock has advanced once since)
ServerTime == now - 1

\* C13: a missing or malformed createdAt never makes a transaction fail: a
\* transaction that is otherwise valid is committed with status "ok", its
\* created_at is the server time when createdAt is absent, null or not an
\* ISO-8601 string, and the submitted time when createdAt is well formed.
C13_CreatedAtFallsBackToServerTime ==
    Responded =>
        \A i \in ValidIdx :
            /\ ack[i].status = "ok"
            /\ \E k \in 1..Len(NewTransactions) :
                  /\ NewTransactions[k].id = ack[i].server_id
                  /\ NewTransactions[k].created_at =
                        IF req[i].createdAt.k = "iso" THEN req[i].createdAt.v
                        ELSE ServerTime

\* a batch of a transaction with a malformed createdAt, stored with the
\* server time, and a transaction with a well-formed one, stored as given
C13_Witness ==
    /\ Len(req) = 2
    /\ Len(NewTransactions) = 2
    /\ req[1].createdAt.k = "bad"
    /\ req[2].createdAt.k = "iso"
    /\ ack[1].status = "ok"
    /\ ack[2].status = "ok"
    /\ NewTransactions[1].created_at = ServerTime
    /\ NewTransactions[2].created_at = req[2].createdAt.v
    /\ ServerTime # req[2].createdAt.v

\* C14 (as claimed): after any sequence of product upserts and sync requests
\* every product of the catalog has a qty >= 0.
C14_CatalogQtyNeverNegative ==
    \A b \in DOMAIN catalog : catalog[b].qty >= 0

OkIdx == {i \in 1..Len(ack) : ack[i].status = "ok"}

\* C15: the ids of committed transactions increase in commit order, also
\* across requests with rolled-back transactions: the server_id values of the
\* "ok" acks of a response increase in the order of the request, and each is
\* greater than the id of every transaction committed before the request.
C15_TransactionIdsIncrease ==
    /\ \A k \in 1..Len(transactions), m \in 1..Len(transactions) :
          k < m => transactions[k].id < transactions[m].id
    /\ Responded =>
          /\ \A i \in OkIdx, j \in OkIdx : i < j => ack[i].server_id < ack[j].server_id
          /\ \A i \in OkIdx : \A k \in 1..Len(pre.transactions) :
                pre.transactions[k].id < ack[i].server_id
          /\ \A i \in OkIdx : \E k \in 1..Len(NewTransactions) :
                NewTransactions[k].id = ack[i].server_id

\* a transaction committed after a rolled-back one that had been given an id:
\* the ledger holds two transactions and their ids are not consecutive
C15_Witness ==
    /\ Len(transactions) = 2
    /\ transactions[2].id > transactions[1].id + 1
    /\ \E i \in 1..Len(ack) : ack[i].status = "error"
    /\ \E i \in OkIdx : ack[i].server_id = transactions[2].id

\* the credentials of a request do not belong to an admin of the user store
\* us: they are missing, name no user, carry a wrong PIN, or belong to a user
\* who is not an admin
Unauthorized(us, data) ==
    \/ data.admin_name = ""
    \/ data.admin_pin = ""
    \/ \A k \in 1..Len(us) :
          \/ us[k].name # data.admin_name
          \/ us[k].pin_hash # generate_password_hash(data.admin_pin)
          \/ ~us[k].is_admin

\* C16: create_user and change_pin, called without admin credentials, with an
\* unknown admin name, with a wrong PIN or with the credentials of a user who
\* is not an admin, return an error response and leave the user store as it
\* was: no user created, no pin_hash modified.
C16_UnauthorizedChangesNothing ==
    (apiReq.op \in {"create_user", "change_pin"} /\ Unauthorized(preUsers, apiReq.data)) =>
        /\ ~apiResp.ok
        /\ apiResp.status \in {400, 403, 500}
        /\ users = preUsers

\* a user who is not an admin presents the right PIN and asks for a new PIN
\* for the admin: refused with 403, the store unchanged
C16_Witness ==
    /\ apiReq.op = "change_pin"
    /\ apiReq.data.admin_name = "bob"
    /\ apiReq.data.target_name = DefaultAdmin
    /\ apiReq.data.new_pin = "1111"
    /\ \E k \in 1..Len(preUsers) :
          /\ preUsers[k].name = "bob"
          /\ ~preUsers[k].is_admin
          /\ check_password_hash(preUsers[k].pin_hash, apiReq.data.admin_pin)
    /\ apiResp.status = 403
    /\ users = preUsers

Suggested == apiReq.op = "suggest" /\ apiResp.ok

\* the qty of the ledger lines of a barcode, added up
SumQtyOfRows(rows, b) ==
    LET RECURSIVE Sum(_)
        Sum(k) == IF k = 0 THEN 0
                  ELSE Sum(k - 1) + (IF rows[k].barcode = b THEN rows[k].qty ELSE 0)
    IN  Sum(Len(rows))

\* the sales history and the stock the suggestion was computed from
SoldInHistory == SumQtyOfRows(pre.lines, apiReq.data.barcode)
StockOnHand == pre.catalog[apiReq.data.barcode].qty
Lookback == IF apiReq.data.lookback_days.k = "absent" THEN 14
            ELSE NumVal(apiReq.data.lookback_days)

\* C17 (as claimed): for every existing product, every sales history, also
\* an empty one, and every lookback window (of at least one day), the
\* suggested reorder qty s is max(0, target - qty) with target =
\* max(avg_daily * 14, 5) and avg_daily = sold / lookback, and the request
\* changes neither the catalog nor the ledger.
C17_ReorderIsTargetGap ==
    Suggested =>
        /\ Lookback >= 1 =>
              IF SoldInHistory * 14 <= 5 * Lookback
              THEN apiResp.suggested_reorder_qty = Max(0, 5 - StockOnHand)
              ELSE apiResp.suggested_reorder_qty * Lookback
                      = Max(0, SoldInHistory * 14 - StockOnHand * Lookback)
        /\ DB = pre

\* C17 (amended): for every existing product and every lookback value the
\* endpoint accepts, with days = max(1, lookback): when the qty sold over the
\* whole history is positive, the suggested reorder qty is max(0, target - qty)
\* with target = max(t, 5) and t the whole part of sold * 14 / days; when
\* nothing was sold (or the history sums to no more than 0) it is 0; and the
\* request, also when it is refused, changes neither the catalog nor the ledger.
C17_ReorderIsTruncatedTargetGapWhenSold ==
    apiReq.op = "suggest" =>
        /\ DB = pre
        /\ apiResp.ok <=>
              /\ apiReq.data.lookback_days.k \in {"absent", "num", "str"}
              /\ apiReq.data.barcode \in DOMAIN pre.catalog
        /\ apiResp.ok =>
              LET days == IF Lookback >= 1 THEN Lookback ELSE 1
              IN  IF SoldInHistory > 0
                  THEN \E t \in 0..(SoldInHistory * 14) :
                          /\ t * days <= SoldInHistory * 14
                          /\ SoldInHistory * 14 < (t + 1) * days
                          /\ apiResp.suggested_reorder_qty
                                = Max(0, (IF t >= 5 THEN t ELSE 5) - StockOnHand)
                  ELSE apiResp.suggested_reorder_qty = 0

\* a product with sales whose 14-day projection is no whole number
\* (4 sold, 3 days: 18.67), and a suggestion of 18 minus the stock
C17_Witness ==
    /\ Suggested
    /\ SoldInHistory = 4
    /\ Lookback = 3
    /\ apiResp.suggested_reorder_qty = 18 - StockOnHand
    /\ apiResp.suggested_reorder_qty > 0

\* a product without sales and with less than 5 in stock: no reorder suggested
C17_WitnessNoSales ==
    /\ Suggested
    /\ pre.lines = <<>>
    /\ StockOnHand < 5
    /\ apiResp.suggested_reorder_qty = 0

NewLines == SubSeq(tlines, Len(pre.lines) + 1, Len(tlines))

\* C18: in every committed state of the ledger each line carries the id of
\* exactly one committed transaction, and the lines a response added are the
\* lines of the transactions it acknowledged with "ok", each under the
\* server_id of its own transaction: no line of a rolled-back transaction
\* survives, and none is attached to the id of another transaction.
C18_LinesBelongToCommittedTransactions ==
    /\ \A k \in 1..Len(tlines) :
          Cardinality({m \in 1..Len(transactions) :
                          transactions[m].id = tlines[k].transaction_id}) = 1
    /\ Responded =>
          /\ \A k \in 1..Len(NewLines) :
                \E i \in OkIdx : NewLines[k].transaction_id = ack[i].server_id
          /\ \A i \in OkIdx :
                LET own == LinesOf(tlines, ack[i].server_id)
                IN  /\ Len(own) = Len(req[i].lines)
                    /\ \A j \in 1..Len(own) :
                          /\ own[j].barcode = req[i].lines[j].barcode
                          /\ own[j].qty = NumVal(req[i].lines[j].qty)

\* a transaction rolled back after its first line had been flushed, then a
\* transaction of the same request committed with lines of its own
C18_Witness ==
    /\ Len(req) = 2
    /\ Len(ack) = 2
    /\ ack[1].status = "error"
    /\ Len(req[1].lines) = 2
    /\ ~BadField(req[1].total)
    /\ ~BadField(req[1].lines[1].qty)
    /\ ~BadField(req[1].lines[1].price)
    /\ ~BadField(req[1].lines[1].cost)
    /\ ack[2].status = "ok"
    /\ Len(NewLines) = Len(req[2].lines)
    /\ NewLines # <<>>

\* C19 (as claimed): a sync request never increases stock: whatever integer
\* qty its lines carry, the committed qty of every product after the request
\* is at most its qty before the request.
C19_SyncNeverIncreasesStock ==
    Responded =>
        \A b \in DOMAIN pre.catalog : catalog[b].qty <= pre.catalog[b].qty

\* what does hold: stock does not grow when every line qty of the request is
\* a non-negative integer
C19_StockGrowsOnlyByNegativeQty ==
    (Responded /\ NoNegativeQty(req)) =>
        \A b \in DOMAIN pre.catalog : catalog[b].qty <= pre.catalog[b].qty

\* the barcodes of the lines of the transactions the response acknowledged
\* with "ok"
CommittedBarcodes ==
    {req[i].lines[j].barcode : <<i, j>> \in
        {p \in OkIdx \X (1..MaxLines) : p[2] <= Len(req[p[1]].lines)}}

\* C20: a sync request changes nothing in the catalog but the qty of products
\* whose barcode is on a line of a committed transaction: it creates and
\* deletes no product, leaves id, barcode, name, price, cost, is_new and
\* created_at of every product as they were, leaves the qty of every product
\* that is on no committed line, and neither changes nor removes a transaction
\* or a line the ledger held before.
C20_SyncFrame ==
    Responded =>
        /\ DOMAIN catalog = DOMAIN pre.catalog
        /\ \A b \in DOMAIN pre.catalog :
              /\ [catalog[b] EXCEPT !.qty = pre.catalog[b].qty] = pre.catalog[b]
              /\ b \notin CommittedBarcodes => catalog[b].qty = pre.catalog[b].qty
        /\ Len(transactions) >= Len(pre.transactions)
        /\ SubSeq(transactions, 1, Len(pre.transactions)) = pre.transactions
        /\ Len(tlines) >= Len(pre.lines)
        /\ SubSeq(tlines, 1, Len(pre.lines)) = pre.lines

\* a request on a ledger that already holds transactions: one transaction
\* commits and takes stock of product 111, one fails after it had touched
\* product 222, whose qty stays
C20_Witness ==
    /\ Len(req) = 2
    /\ Len(ack) = 2
    /\ pre.transactions # <<>>
    /\ pre.lines # <<>>
    /\ ack[1].status = "ok"
    /\ ack[2].status = "error"
    /\ ~BadField(req[2].total)
    /\ Len(req[2].lines) = 2
    /\ req[2].lines[1].barcode = "222"
    /\ Valid([req[2] EXCEPT !.lines = <<req[2].lines[1]>>])
    /\ CommittedBarcodes = {"111"}
    /\ catalog["111"].qty < pre.catalog["111"].qty
    /\ catalog["222"].qty = pre.catalog["222"].qty

=============================================================================
